---------------------------- MODULE Spec2Model ----------------------------
(***************************************************************************)
(* A model of the three-agent blog-post pipeline of src/multi_agents.py:   *)
(* the three state-recording tools, the agent declarations (tools and      *)
(* hand-off sets), the assembled workflow with its initial state, and the  *)
(* output extraction of execute_workflow.                                  *)
(*                                                                         *)
(* The orchestration engine (AgentWorkflow.run, the context store) is a    *)
(* library outside src/.  Its steps are modelled from the contract the     *)
(* specification states for it: hand-offs are validated against the active *)
(* agent's declared set, the workflow state lives as long as the workflow  *)
(* object, and edit_state is a critical section over that state.  What the *)
(* installed engine makes of ctx.store.edit_state, used without a call, is *)
(* a choice made once per build: a context manager or a method.            *)
(***************************************************************************)
EXTENDS Integers, Sequences, FiniteSets, TLC

-----------------------------------------------------------------------------
(* Bounds of the model *)

\* number of tool calls that may be in flight at the same time
MaxInFlight == 2
\* number of execute_workflow calls made on one workflow object
MaxRuns == 2
\* cap on the agent activations recorded for one run
MaxActivations == 4

-----------------------------------------------------------------------------
(* Python values: a tagged record, so that strings, None, lists and other  *)
(* objects can sit in the same dictionary slot.  A text is the sequence of *)
(* its code points.                                                        *)

\* the printable ASCII characters from the space (32) to the underscore (95)
\* and from a (97) to the tilde (126); a literal cannot hold the grave
\* accent (96)
AsciiLow ==
    " !\"#$%&'()*+,-./0123456789:;<=>?@ABCDEFGHIJKLMNOPQRSTUVWXYZ[\\]^_"
AsciiHigh == "abcdefghijklmnopqrstuvwxyz{|}~"

\* the code point of a character of a literal
CodeOf(ch) ==
    IF ch = "\n" THEN 10
    ELSE IF \E i \in 1..Len(AsciiLow) : SubSeq(AsciiLow, i, i) = ch
    THEN 31 + CHOOSE i \in 1..Len(AsciiLow) : SubSeq(AsciiLow, i, i) = ch
    ELSE 96 + CHOOSE i \in 1..Len(AsciiHigh) : SubSeq(AsciiHigh, i, i) = ch

\* the text a literal stands for
Text(lit) ==
    IF Len(lit) = 0 THEN << >>
    ELSE [i \in 1..Len(lit) |-> CodeOf(SubSeq(lit, i, i))]

\* a str, a one-element list and another object, each written by a literal:
\* the text of the str, of the list's element, of what str() makes of the
\* object
Str(lit) == [t |-> "str", s |-> Text(lit)]
ListOf(lit) == [t |-> "list", s |-> Text(lit)]
Obj(lit) == [t |-> "obj", s |-> Text(lit)]
\* the str with the text x
StrOf(x) == [t |-> "str", s |-> x]
\* a key that a dictionary does not hold
Missing == [t |-> "missing", s |-> << >>]

IsStr(v) == v.t = "str"

\* bool(v): the empty string is falsy, a one-element list and an arbitrary
\* object are truthy
Truthy(v) ==
    CASE v.t = "str" -> v.s # << >>
      [] v.t = "list" -> TRUE
      [] OTHER -> TRUE

\* the ranges of the code points above the tilde that str.isprintable()
\* rejects (Unicode 14.0.0, the database of the interpreter): controls,
\* separators other than the space, format characters, surrogates, private
\* use and unassigned code points
NonPrintableRanges == {
    <<127, 160>>, <<173, 173>>, <<888, 889>>, <<896, 899>>, <<907, 907>>,
    <<909, 909>>, <<930, 930>>, <<1328, 1328>>, <<1367, 1368>>,
    <<1419, 1420>>, <<1424, 1424>>, <<1480, 1487>>, <<1515, 1518>>,
    <<1525, 1541>>, <<1564, 1564>>, <<1757, 1757>>, <<1806, 1807>>,
    <<1867, 1868>>, <<1970, 1983>>, <<2043, 2044>>, <<2094, 2095>>,
    <<2111, 2111>>, <<2140, 2141>>, <<2143, 2143>>, <<2155, 2159>>,
    <<2191, 2199>>, <<2274, 2274>>, <<2436, 2436>>, <<2445, 2446>>,
    <<2449, 2450>>, <<2473, 2473>>, <<2481, 2481>>, <<2483, 2485>>,
    <<2490, 2491>>, <<2501, 2502>>, <<2505, 2506>>, <<2511, 2518>>,
    <<2520, 2523>>, <<2526, 2526>>, <<2532, 2533>>, <<2559, 2560>>,
    <<2564, 2564>>, <<2571, 2574>>, <<2577, 2578>>, <<2601, 2601>>,
    <<2609, 2609>>, <<2612, 2612>>, <<2615, 2615>>, <<2618, 2619>>,
    <<2621, 2621>>, <<2627, 2630>>, <<2633, 2634>>, <<2638, 2640>>,
    <<2642, 2648>>, <<2653, 2653>>, <<2655, 2661>>, <<2679, 2688>>,
    <<2692, 2692>>, <<2702, 2702>>, <<2706, 2706>>, <<2729, 2729>>,
    <<2737, 2737>>, <<2740, 2740>>, <<2746, 2747>>, <<2758, 2758>>,
    <<2762, 2762>>, <<2766, 2767>>, <<2769, 2783>>, <<2788, 2789>>,
    <<2802, 2808>>, <<2816, 2816>>, <<2820, 2820>>, <<2829, 2830>>,
    <<2833, 2834>>, <<2857, 2857>>, <<2865, 2865>>, <<2868, 2868>>,
    <<2874, 2875>>, <<2885, 2886>>, <<2889, 2890>>, <<2894, 2900>>,
    <<2904, 2907>>, <<2910, 2910>>, <<2916, 2917>>, <<2936, 2945>>,
    <<2948, 2948>>, <<2955, 2957>>, <<2961, 2961>>, <<2966, 2968>>,
    <<2971, 2971>>, <<2973, 2973>>, <<2976, 2978>>, <<2981, 2983>>,
    <<2987, 2989>>, <<3002, 3005>>, <<3011, 3013>>, <<3017, 3017>>,
    <<3022, 3023>>, <<3025, 3030>>, <<3032, 3045>>, <<3067, 3071>>,
    <<3085, 3085>>, <<3089, 3089>>, <<3113, 3113>>, <<3130, 3131>>,
    <<3141, 3141>>, <<3145, 3145>>, <<3150, 3156>>, <<3159, 3159>>,
    <<3163, 3164>>, <<3166, 3167>>, <<3172, 3173>>, <<3184, 3190>>,
    <<3213, 3213>>, <<3217, 3217>>, <<3241, 3241>>, <<3252, 3252>>,
    <<3258, 3259>>, <<3269, 3269>>, <<3273, 3273>>, <<3278, 3284>>,
    <<3287, 3292>>, <<3295, 3295>>, <<3300, 3301>>, <<3312, 3312>>,
    <<3315, 3327>>, <<3341, 3341>>, <<3345, 3345>>, <<3397, 3397>>,
    <<3401, 3401>>, <<3408, 3411>>, <<3428, 3429>>, <<3456, 3456>>,
    <<3460, 3460>>, <<3479, 3481>>, <<3506, 3506>>, <<3516, 3516>>,
    <<3518, 3519>>, <<3527, 3529>>, <<3531, 3534>>, <<3541, 3541>>,
    <<3543, 3543>>, <<3552, 3557>>, <<3568, 3569>>, <<3573, 3584>>,
    <<3643, 3646>>, <<3676, 3712>>, <<3715, 3715>>, <<3717, 3717>>,
    <<3723, 3723>>, <<3748, 3748>>, <<3750, 3750>>, <<3774, 3775>>,
    <<3781, 3781>>, <<3783, 3783>>, <<3790, 3791>>, <<3802, 3803>>,
    <<3808, 3839>>, <<3912, 3912>>, <<3949, 3952>>, <<3992, 3992>>,
    <<4029, 4029>>, <<4045, 4045>>, <<4059, 4095>>, <<4294, 4294>>,
    <<4296, 4300>>, <<4302, 4303>>, <<4681, 4681>>, <<4686, 4687>>,
    <<4695, 4695>>, <<4697, 4697>>, <<4702, 4703>>, <<4745, 4745>>,
    <<4750, 4751>>, <<4785, 4785>>, <<4790, 4791>>, <<4799, 4799>>,
    <<4801, 4801>>, <<4806, 4807>>, <<4823, 4823>>, <<4881, 4881>>,
    <<4886, 4887>>, <<4955, 4956>>, <<4989, 4991>>, <<5018, 5023>>,
    <<5110, 5111>>, <<5118, 5119>>, <<5760, 5760>>, <<5789, 5791>>,
    <<5881, 5887>>, <<5910, 5918>>, <<5943, 5951>>, <<5972, 5983>>,
    <<5997, 5997>>, <<6001, 6001>>, <<6004, 6015>>, <<6110, 6111>>,
    <<6122, 6127>>, <<6138, 6143>>, <<6158, 6158>>, <<6170, 6175>>,
    <<6265, 6271>>, <<6315, 6319>>, <<6390, 6399>>, <<6431, 6431>>,
    <<6444, 6447>>, <<6460, 6463>>, <<6465, 6467>>, <<6510, 6511>>,
    <<6517, 6527>>, <<6572, 6575>>, <<6602, 6607>>, <<6619, 6621>>,
    <<6684, 6685>>, <<6751, 6751>>, <<6781, 6782>>, <<6794, 6799>>,
    <<6810, 6815>>, <<6830, 6831>>, <<6863, 6911>>, <<6989, 6991>>,
    <<7039, 7039>>, <<7156, 7163>>, <<7224, 7226>>, <<7242, 7244>>,
    <<7305, 7311>>, <<7355, 7356>>, <<7368, 7375>>, <<7419, 7423>>,
    <<7958, 7959>>, <<7966, 7967>>, <<8006, 8007>>, <<8014, 8015>>,
    <<8024, 8024>>, <<8026, 8026>>, <<8028, 8028>>, <<8030, 8030>>,
    <<8062, 8063>>, <<8117, 8117>>, <<8133, 8133>>, <<8148, 8149>>,
    <<8156, 8156>>, <<8176, 8177>>, <<8181, 8181>>, <<8191, 8207>>,
    <<8232, 8239>>, <<8287, 8303>>, <<8306, 8307>>, <<8335, 8335>>,
    <<8349, 8351>>, <<8385, 8399>>, <<8433, 8447>>, <<8588, 8591>>,
    <<9255, 9279>>, <<9291, 9311>>, <<11124, 11125>>, <<11158, 11158>>,
    <<11508, 11512>>, <<11558, 11558>>, <<11560, 11564>>, <<11566, 11567>>,
    <<11624, 11630>>, <<11633, 11646>>, <<11671, 11679>>, <<11687, 11687>>,
    <<11695, 11695>>, <<11703, 11703>>, <<11711, 11711>>, <<11719, 11719>>,
    <<11727, 11727>>, <<11735, 11735>>, <<11743, 11743>>, <<11870, 11903>>,
    <<11930, 11930>>, <<12020, 12031>>, <<12246, 12271>>, <<12284, 12288>>,
    <<12352, 12352>>, <<12439, 12440>>, <<12544, 12548>>, <<12592, 12592>>,
    <<12687, 12687>>, <<12772, 12783>>, <<12831, 12831>>, <<42125, 42127>>,
    <<42183, 42191>>, <<42540, 42559>>, <<42744, 42751>>, <<42955, 42959>>,
    <<42962, 42962>>, <<42964, 42964>>, <<42970, 42993>>, <<43053, 43055>>,
    <<43066, 43071>>, <<43128, 43135>>, <<43206, 43213>>, <<43226, 43231>>,
    <<43348, 43358>>, <<43389, 43391>>, <<43470, 43470>>, <<43482, 43485>>,
    <<43519, 43519>>, <<43575, 43583>>, <<43598, 43599>>, <<43610, 43611>>,
    <<43715, 43738>>, <<43767, 43776>>, <<43783, 43784>>, <<43791, 43792>>,
    <<43799, 43807>>, <<43815, 43815>>, <<43823, 43823>>, <<43884, 43887>>,
    <<44014, 44015>>, <<44026, 44031>>, <<55204, 55215>>, <<55239, 55242>>,
    <<55292, 63743>>, <<64110, 64111>>, <<64218, 64255>>, <<64263, 64274>>,
    <<64280, 64284>>, <<64311, 64311>>, <<64317, 64317>>, <<64319, 64319>>,
    <<64322, 64322>>, <<64325, 64325>>, <<64451, 64466>>, <<64912, 64913>>,
    <<64968, 64974>>, <<64976, 65007>>, <<65050, 65055>>, <<65107, 65107>>,
    <<65127, 65127>>, <<65132, 65135>>, <<65141, 65141>>, <<65277, 65280>>,
    <<65471, 65473>>, <<65480, 65481>>, <<65488, 65489>>, <<65496, 65497>>,
    <<65501, 65503>>, <<65511, 65511>>, <<65519, 65531>>, <<65534, 65535>>,
    <<65548, 65548>>, <<65575, 65575>>, <<65595, 65595>>, <<65598, 65598>>,
    <<65614, 65615>>, <<65630, 65663>>, <<65787, 65791>>, <<65795, 65798>>,
    <<65844, 65846>>, <<65935, 65935>>, <<65949, 65951>>, <<65953, 65999>>,
    <<66046, 66175>>, <<66205, 66207>>, <<66257, 66271>>, <<66300, 66303>>,
    <<66340, 66348>>, <<66379, 66383>>, <<66427, 66431>>, <<66462, 66462>>,
    <<66500, 66503>>, <<66518, 66559>>, <<66718, 66719>>, <<66730, 66735>>,
    <<66772, 66775>>, <<66812, 66815>>, <<66856, 66863>>, <<66916, 66926>>,
    <<66939, 66939>>, <<66955, 66955>>, <<66963, 66963>>, <<66966, 66966>>,
    <<66978, 66978>>, <<66994, 66994>>, <<67002, 67002>>, <<67005, 67071>>,
    <<67383, 67391>>, <<67414, 67423>>, <<67432, 67455>>, <<67462, 67462>>,
    <<67505, 67505>>, <<67515, 67583>>, <<67590, 67591>>, <<67593, 67593>>,
    <<67638, 67638>>, <<67641, 67643>>, <<67645, 67646>>, <<67670, 67670>>,
    <<67743, 67750>>, <<67760, 67807>>, <<67827, 67827>>, <<67830, 67834>>,
    <<67868, 67870>>, <<67898, 67902>>, <<67904, 67967>>, <<68024, 68027>>,
    <<68048, 68049>>, <<68100, 68100>>, <<68103, 68107>>, <<68116, 68116>>,
    <<68120, 68120>>, <<68150, 68151>>, <<68155, 68158>>, <<68169, 68175>>,
    <<68185, 68191>>, <<68256, 68287>>, <<68327, 68330>>, <<68343, 68351>>,
    <<68406, 68408>>, <<68438, 68439>>, <<68467, 68471>>, <<68498, 68504>>,
    <<68509, 68520>>, <<68528, 68607>>, <<68681, 68735>>, <<68787, 68799>>,
    <<68851, 68857>>, <<68904, 68911>>, <<68922, 69215>>, <<69247, 69247>>,
    <<69290, 69290>>, <<69294, 69295>>, <<69298, 69375>>, <<69416, 69423>>,
    <<69466, 69487>>, <<69514, 69551>>, <<69580, 69599>>, <<69623, 69631>>,
    <<69710, 69713>>, <<69750, 69758>>, <<69821, 69821>>, <<69827, 69839>>,
    <<69865, 69871>>, <<69882, 69887>>, <<69941, 69941>>, <<69960, 69967>>,
    <<70007, 70015>>, <<70112, 70112>>, <<70133, 70143>>, <<70162, 70162>>,
    <<70207, 70271>>, <<70279, 70279>>, <<70281, 70281>>, <<70286, 70286>>,
    <<70302, 70302>>, <<70314, 70319>>, <<70379, 70383>>, <<70394, 70399>>,
    <<70404, 70404>>, <<70413, 70414>>, <<70417, 70418>>, <<70441, 70441>>,
    <<70449, 70449>>, <<70452, 70452>>, <<70458, 70458>>, <<70469, 70470>>,
    <<70473, 70474>>, <<70478, 70479>>, <<70481, 70486>>, <<70488, 70492>>,
    <<70500, 70501>>, <<70509, 70511>>, <<70517, 70655>>, <<70748, 70748>>,
    <<70754, 70783>>, <<70856, 70863>>, <<70874, 71039>>, <<71094, 71095>>,
    <<71134, 71167>>, <<71237, 71247>>, <<71258, 71263>>, <<71277, 71295>>,
    <<71354, 71359>>, <<71370, 71423>>, <<71451, 71452>>, <<71468, 71471>>,
    <<71495, 71679>>, <<71740, 71839>>, <<71923, 71934>>, <<71943, 71944>>,
    <<71946, 71947>>, <<71956, 71956>>, <<71959, 71959>>, <<71990, 71990>>,
    <<71993, 71994>>, <<72007, 72015>>, <<72026, 72095>>, <<72104, 72105>>,
    <<72152, 72153>>, <<72165, 72191>>, <<72264, 72271>>, <<72355, 72367>>,
    <<72441, 72703>>, <<72713, 72713>>, <<72759, 72759>>, <<72774, 72783>>,
    <<72813, 72815>>, <<72848, 72849>>, <<72872, 72872>>, <<72887, 72959>>,
    <<72967, 72967>>, <<72970, 72970>>, <<73015, 73017>>, <<73019, 73019>>,
    <<73022, 73022>>, <<73032, 73039>>, <<73050, 73055>>, <<73062, 73062>>,
    <<73065, 73065>>, <<73103, 73103>>, <<73106, 73106>>, <<73113, 73119>>,
    <<73130, 73439>>, <<73465, 73647>>, <<73649, 73663>>, <<73714, 73726>>,
    <<74650, 74751>>, <<74863, 74863>>, <<74869, 74879>>, <<75076, 77711>>,
    <<77811, 77823>>, <<78895, 82943>>, <<83527, 92159>>, <<92729, 92735>>,
    <<92767, 92767>>, <<92778, 92781>>, <<92863, 92863>>, <<92874, 92879>>,
    <<92910, 92911>>, <<92918, 92927>>, <<92998, 93007>>, <<93018, 93018>>,
    <<93026, 93026>>, <<93048, 93052>>, <<93072, 93759>>, <<93851, 93951>>,
    <<94027, 94030>>, <<94088, 94094>>, <<94112, 94175>>, <<94181, 94191>>,
    <<94194, 94207>>, <<100344, 100351>>, <<101590, 101631>>,
    <<101641, 110575>>, <<110580, 110580>>, <<110588, 110588>>,
    <<110591, 110591>>, <<110883, 110927>>, <<110931, 110947>>,
    <<110952, 110959>>, <<111356, 113663>>, <<113771, 113775>>,
    <<113789, 113791>>, <<113801, 113807>>, <<113818, 113819>>,
    <<113824, 118527>>, <<118574, 118575>>, <<118599, 118607>>,
    <<118724, 118783>>, <<119030, 119039>>, <<119079, 119080>>,
    <<119155, 119162>>, <<119275, 119295>>, <<119366, 119519>>,
    <<119540, 119551>>, <<119639, 119647>>, <<119673, 119807>>,
    <<119893, 119893>>, <<119965, 119965>>, <<119968, 119969>>,
    <<119971, 119972>>, <<119975, 119976>>, <<119981, 119981>>,
    <<119994, 119994>>, <<119996, 119996>>, <<120004, 120004>>,
    <<120070, 120070>>, <<120075, 120076>>, <<120085, 120085>>,
    <<120093, 120093>>, <<120122, 120122>>, <<120127, 120127>>,
    <<120133, 120133>>, <<120135, 120137>>, <<120145, 120145>>,
    <<120486, 120487>>, <<120780, 120781>>, <<121484, 121498>>,
    <<121504, 121504>>, <<121520, 122623>>, <<122655, 122879>>,
    <<122887, 122887>>, <<122905, 122906>>, <<122914, 122914>>,
    <<122917, 122917>>, <<122923, 123135>>, <<123181, 123183>>,
    <<123198, 123199>>, <<123210, 123213>>, <<123216, 123535>>,
    <<123567, 123583>>, <<123642, 123646>>, <<123648, 124895>>,
    <<124903, 124903>>, <<124908, 124908>>, <<124911, 124911>>,
    <<124927, 124927>>, <<125125, 125126>>, <<125143, 125183>>,
    <<125260, 125263>>, <<125274, 125277>>, <<125280, 126064>>,
    <<126133, 126208>>, <<126270, 126463>>, <<126468, 126468>>,
    <<126496, 126496>>, <<126499, 126499>>, <<126501, 126502>>,
    <<126504, 126504>>, <<126515, 126515>>, <<126520, 126520>>,
    <<126522, 126522>>, <<126524, 126529>>, <<126531, 126534>>,
    <<126536, 126536>>, <<126538, 126538>>, <<126540, 126540>>,
    <<126544, 126544>>, <<126547, 126547>>, <<126549, 126550>>,
    <<126552, 126552>>, <<126554, 126554>>, <<126556, 126556>>,
    <<126558, 126558>>, <<126560, 126560>>, <<126563, 126563>>,
    <<126565, 126566>>, <<126571, 126571>>, <<126579, 126579>>,
    <<126584, 126584>>, <<126589, 126589>>, <<126591, 126591>>,
    <<126602, 126602>>, <<126620, 126624>>, <<126628, 126628>>,
    <<126634, 126634>>, <<126652, 126703>>, <<126706, 126975>>,
    <<127020, 127023>>, <<127124, 127135>>, <<127151, 127152>>,
    <<127168, 127168>>, <<127184, 127184>>, <<127222, 127231>>,
    <<127406, 127461>>, <<127491, 127503>>, <<127548, 127551>>,
    <<127561, 127567>>, <<127570, 127583>>, <<127590, 127743>>,
    <<128728, 128732>>, <<128749, 128751>>, <<128765, 128767>>,
    <<128884, 128895>>, <<128985, 128991>>, <<129004, 129007>>,
    <<129009, 129023>>, <<129036, 129039>>, <<129096, 129103>>,
    <<129114, 129119>>, <<129160, 129167>>, <<129198, 129199>>,
    <<129202, 129279>>, <<129620, 129631>>, <<129646, 129647>>,
    <<129653, 129655>>, <<129661, 129663>>, <<129671, 129679>>,
    <<129709, 129711>>, <<129723, 129727>>, <<129734, 129743>>,
    <<129754, 129759>>, <<129768, 129775>>, <<129783, 129791>>,
    <<129939, 129939>>, <<129995, 130031>>, <<130042, 131071>>,
    <<173792, 173823>>, <<177977, 177983>>, <<178206, 178207>>,
    <<183970, 183983>>, <<191457, 194559>>, <<195102, 196607>>,
    <<201547, 917759>>, <<918000, 1114111>>
    }

\* str.isprintable() of one character
Printable(cp) ==
    IF cp < 127 THEN cp >= 32
    ELSE ~\E r \in NonPrintableRanges : r[1] <= cp /\ cp <= r[2]

HexDigits == Text("0123456789abcdef")

\* n in hexadecimal, on `width` digits
RECURSIVE Hex(_, _)
Hex(n, width) ==
    IF width = 0 THEN << >>
    ELSE Hex(n \div 16, width - 1) \o <<HexDigits[(n % 16) + 1]>>

\* the text s holds the character ch
HasChar(s, ch) == \E i \in 1..Len(s) : s[i] = ch

\* the quote repr() puts around a string: the single quote (39), unless the
\* string holds a single quote and no double quote (34)
QuoteFor(s) == IF HasChar(s, 39) /\ ~HasChar(s, 34) THEN 34 ELSE 39

\* repr() of one character inside the quote q: the backslash (92) and the
\* quote get a backslash, tab, line feed and carriage return are \t (116),
\* \n (110) and \r (114), a printable character is itself, every other one
\* is \xNN (120), \uNNNN (117) or \UNNNNNNNN (85) by its size
EscapeChar(cp, q) ==
    IF cp = 92 \/ cp = q THEN <<92, cp>>
    ELSE IF cp = 9 THEN <<92, 116>>
    ELSE IF cp = 10 THEN <<92, 110>>
    ELSE IF cp = 13 THEN <<92, 114>>
    ELSE IF Printable(cp) THEN <<cp>>
    ELSE IF cp < 256 THEN <<92, 120>> \o Hex(cp, 2)
    ELSE IF cp < 65536 THEN <<92, 117>> \o Hex(cp, 4)
    ELSE <<92, 85>> \o Hex(cp, 8)

RECURSIVE EscapeFor(_, _)
EscapeFor(s, q) ==
    IF Len(s) = 0 THEN << >>
    ELSE EscapeChar(Head(s), q) \o EscapeFor(Tail(s), q)

\* repr() of a string
ReprStr(s) == <<QuoteFor(s)>> \o EscapeFor(s, QuoteFor(s)) \o <<QuoteFor(s)>>

\* str(v): a string is itself, a list shows the repr of its element between
\* brackets (91, 93)
PyStr(v) ==
    CASE v.t = "str" -> v.s
      [] v.t = "list" -> <<91>> \o ReprStr(v.s) \o <<93>>
      [] OTHER -> v.s

\* repr(v)
PyRepr(v) ==
    CASE v.t = "str" -> ReprStr(v.s)
      [] v.t = "list" -> <<91>> \o ReprStr(v.s) \o <<93>>
      [] OTHER -> v.s


-----------------------------------------------------------------------------
(* The workflow state and the agents, as initialize_workflow declares them *)

Keys == {"search_results", "post_article_content", "improved_post_article"}
KeyOrder == <<"search_results", "post_article_content", "improved_post_article">>

InitialState == [k \in Keys |-> Str("")]

Agents == {"SearchAgent", "WritePostAgent", "SeoReviewerAgent"}

RootAgent == "SearchAgent"

RecordingTools == {"record_search_results", "write_post", "improve_seo"}

\* the key a state-recording tool assigns
KeyOf(tool) ==
    CASE tool = "record_search_results" -> "search_results"
      [] tool = "write_post" -> "post_article_content"
      [] tool = "improve_seo" -> "improved_post_article"

\* search results as a model may pass them on: the text holds quotes, a
\* vertical tab (11), a no-break space (160) and a zero-width space (8203)
SearchNotes == StrOf(Text("{'q': \"it's\"}") \o <<11, 160, 8203>>)

\* the payloads a call of each tool may carry: the annotation says str, the
\* caller (the arguments of an LLM's tool call) is not held to it
SearchPayloads == {Str(""), Str("S"), SearchNotes}
PostPayloads == {Str(""), Str("B"), ListOf("x")}
SeoPayloads == {Str(""), Str("A"), ListOf("x")}

PayloadsOf(tool) ==
    CASE tool = "record_search_results" -> SearchPayloads
      [] tool = "write_post" -> PostPayloads
      [] tool = "improve_seo" -> SeoPayloads

\* mutant: the search agent is given improve_seo as well
ToolsOfWithSeoForSearch(agent) ==
    CASE agent = "SearchAgent" ->
            {"web_search", "record_search_results", "improve_seo"}
      [] agent = "WritePostAgent" -> {"write_post"}
      [] agent = "SeoReviewerAgent" -> {"improve_seo"}

\* tools=[...] of each FunctionAgent
ToolsOf(agent) ==
    CASE agent = "SearchAgent" -> {"web_search", "record_search_results"}
      [] agent = "WritePostAgent" -> {"write_post"}
      [] agent = "SeoReviewerAgent" -> {"improve_seo"}

\* mutant: can_handoff_to left out, every other agent is a legal target
CanHandoffToAnyOther(agent) == Agents \ {agent}

\* mutant: the SEO reviewer may hand back to the search agent
CanHandoffToWithBackEdge(agent) ==
    CASE agent = "SearchAgent" -> {"WritePostAgent"}
      [] agent = "WritePostAgent" -> {"SeoReviewerAgent"}
      [] agent = "SeoReviewerAgent" -> {"SearchAgent"}

\* mutant: the search agent hands off to the SEO reviewer, past the writer
CanHandoffToSkippingWriter(agent) ==
    CASE agent = "SearchAgent" -> {"SeoReviewerAgent"}
      [] agent = "WritePostAgent" -> {"SeoReviewerAgent"}
      [] agent = "SeoReviewerAgent" -> {}

\* mutant: the writer declares no hand-off, leaving the SEO reviewer cut off
CanHandoffToWriterLast(agent) ==
    CASE agent = "SearchAgent" -> {"WritePostAgent"}
      [] agent = "WritePostAgent" -> {}
      [] agent = "SeoReviewerAgent" -> {}

\* can_handoff_to=[...] of each FunctionAgent
CanHandoffTo(agent) ==
    CASE agent = "SearchAgent" -> {"WritePostAgent"}
      [] agent = "WritePostAgent" -> {"SeoReviewerAgent"}
      [] agent = "SeoReviewerAgent" -> {}

\* the names a hand-off attempt may carry: every agent and a name no agent has
HandoffTargets == Agents \cup {"UnknownAgent"}

-----------------------------------------------------------------------------
VARIABLES
    state,        \* the workflow state: key -> value
    lock,         \* holder of the store's edit_state lock, 0 when free
    calls,        \* the tool calls in flight, by slot
    lastWrite,    \* history: per key, the payload of the latest assignment
                  \* made in a block that was not abandoned
    pc,           \* execute_workflow: "idle", "running", "awaited", "returned",
                  \* "raised" (an Exception), "raised_base" (another
                  \* BaseException)
    runs,         \* number of execute_workflow calls so far
    active,       \* the active agent; "NoRun" before the first run, "Terminated"
                  \* after a run that ended, "Failed" after one that raised
    activations,  \* history: the agents activated in the current run, in order
    lastAttempt,  \* history: the latest hand-off attempt of the current run
    handoffFailed,\* history: the run ended in an agent that had a successor
    lastDone,     \* history: the latest completed tool call
    result,       \* what the run handed back to execute_workflow
    output,       \* what execute_workflow returned
    lastSearch,   \* history: the latest web_search call of the current run
    session,      \* st.session_state.agent_workflow: 0 when absent, else the
                  \* number of the workflow object it holds
    inits,        \* number of initialize_workflow calls that succeeded
    shown,        \* what the page shows since the latest script run
    topic,        \* the text area's content in the latest script run
    button,       \* whether the latest script run was a press of the button
    build         \* what the installed engine makes of edit_state

vars == <<state, lock, calls, lastWrite, pc, runs, active, activations,
          lastAttempt, handoffFailed, lastDone, result, output, lastSearch,
          session, inits, shown, topic, button, build>>

\* the session and the page of app.py
uiVars == <<session, inits, shown, topic, button>>

CallIds == 1..MaxInFlight

NoCall == [pc |-> "idle", tool |-> "none", payload |-> Missing,
           ctx |-> InitialState, prev |-> Missing]
NoWrite == Missing
NoDone == [key |-> "none", before |-> Missing]
NoAttempt == [from |-> "none", to |-> "none", ok |-> FALSE]
NoResult == [hasState |-> FALSE, state |-> [k \in Keys |-> Missing],
             hasResponse |-> FALSE, response |-> Missing, str |-> << >>,
             present |-> FALSE]
NoOutput == Missing
NoSearch == [outcome |-> "none", providerCalls |-> 0, value |-> Missing,
             joined |-> FALSE]

\* ctx.store.edit_state is named without a call (lines 37, 44, 51): it works
\* as a context manager if the store exposes one under that name, and is a
\* bound method, which `async with` refuses, if edit_state has to be called
EditStateShapes == {"manager", "method"}

Builds == [editState : EditStateShapes]

\* a workflow as initialize_workflow returns it, before any run
FreshWorkflow ==
    /\ state = InitialState
    /\ lock = 0
    /\ calls = [c \in CallIds |-> NoCall]
    /\ lastWrite = [k \in Keys |-> NoWrite]
    /\ pc = "idle"
    /\ runs = 0
    /\ active = "NoRun"
    /\ activations = << >>
    /\ lastAttempt = NoAttempt
    /\ handoffFailed = FALSE
    /\ lastDone = NoDone
    /\ result = NoResult
    /\ output = NoOutput
    /\ lastSearch = NoSearch
    /\ build \in Builds

\* the workflow is constructed and held by the caller
Init ==
    /\ FreshWorkflow
    /\ session = 1
    /\ inits = 1
    /\ shown = "none"
    /\ topic = << >>
    /\ button = FALSE

Quiescent == \A c \in CallIds : calls[c].pc = "idle"

\* no web_search call is under way
NoSearchPending == lastSearch.outcome # "pending"

-----------------------------------------------------------------------------
(* The state-recording tools: record_search_results, write_post and        *)
(* improve_seo.  Each is                                                   *)
(*     async with ctx.store.edit_state as ctx_state:                       *)
(*         ctx_state["state"][<key>] = <payload>                           *)
(*     return "<confirmation>"                                             *)
(* Entering the block takes the store's lock and hands out the state,      *)
(* leaving it stores the state back and frees the lock.                    *)

\* mutant: the key is set only while it is still empty
AssignIfEmpty(d, k, v) == IF d[k] = Str("") THEN [d EXCEPT ![k] = v] ELSE d

\* mutant: the payload is stored under every key
AssignAll(d, k, v) == [x \in DOMAIN d |-> v]

\* mutant: the state is replaced by one that holds the new value only
AssignDropOthers(d, k, v) ==
    [x \in DOMAIN d |-> IF x = k THEN v ELSE Str("")]

\* ctx_state["state"][k] = v
Assign(d, k, v) == [d EXCEPT ![k] = v]

\* the lock of edit_state is free.  The store and its edit_state belong to
\* the engine; that the block is a critical section over a hand-out and a
\* store-back of the state is taken from the specification (section 5:
\* serialized, one tool call completes before the next begins)
LockFree(l) == l = 0

\* the lowest free call slot
FreeSlot(c) ==
    /\ calls[c].pc = "idle"
    /\ \A d \in CallIds : d < c => calls[d].pc # "idle"

\* a call of a state-recording tool begins
BeginCall(c, tool, p) ==
    /\ FreeSlot(c)
    /\ calls' = [calls EXCEPT ![c] = [pc |-> "waiting", tool |-> tool,
                                       payload |-> p, ctx |-> InitialState,
                                       prev |-> Missing]]

\* async with ctx.store.edit_state as ctx_state, where edit_state is a
\* method: the statement raises TypeError before anything is entered, the
\* call ends with nothing assigned and no confirmation returned
ToolRaise(c) ==
    /\ calls[c].pc = "waiting"
    /\ build.editState = "method"
    /\ calls' = [calls EXCEPT ![c] = NoCall]
    /\ UNCHANGED <<state, lock, lastWrite, pc, runs, active, activations,
                   lastAttempt, handoffFailed, lastDone, result, output>>
    /\ UNCHANGED <<lastSearch, uiVars, build>>

\* async with ctx.store.edit_state as ctx_state, where edit_state is a
\* context manager: the block is entered once the lock is free, and
\* ctx_state is the state as it is then
ToolEnter(c) ==
    /\ calls[c].pc = "waiting"
    /\ build.editState = "manager"
    /\ LockFree(lock)
    /\ lock' = c
    /\ calls' = [calls EXCEPT ![c].pc = "editing", ![c].ctx = state]
    /\ UNCHANGED <<state, lastWrite, pc, runs, active, activations,
                   lastAttempt, handoffFailed, lastDone, result, output>>
    /\ UNCHANGED <<lastSearch, uiVars, build>>

\* ctx_state["state"][key] = payload
ToolWrite(c) ==
    /\ calls[c].pc = "editing"
    /\ calls' = [calls EXCEPT
                   ![c].pc = "written",
                   ![c].ctx = Assign(calls[c].ctx, KeyOf(calls[c].tool),
                                     calls[c].payload),
                   ![c].prev = lastWrite[KeyOf(calls[c].tool)]]
    /\ lastWrite' = [lastWrite EXCEPT ![KeyOf(calls[c].tool)] = calls[c].payload]
    /\ UNCHANGED <<state, lock, pc, runs, active, activations,
                   lastAttempt, handoffFailed, lastDone, result, output>>
    /\ UNCHANGED <<lastSearch, uiVars, build>>

\* the block is left, the store takes ctx_state back and the tool returns
\* its confirmation
ToolExit(c) ==
    /\ calls[c].pc = "written"
    /\ state' = calls[c].ctx
    /\ lock' = IF lock = c THEN 0 ELSE lock
    /\ lastDone' = [key |-> KeyOf(calls[c].tool),
                    before |-> state[KeyOf(calls[c].tool)]]
    /\ calls' = [calls EXCEPT ![c] = NoCall]
    /\ UNCHANGED <<lastWrite, pc, runs, active, activations,
                   lastAttempt, handoffFailed, result, output>>
    /\ UNCHANGED <<lastSearch, uiVars, build>>

\* the active agent calls one of its state-recording tools.  The tool calls
\* of one agent step are under way together and the next step begins when
\* all have ended: the call begins when no call is under way, or next to a
\* web_search call of the same step that is still waiting for its provider
ToolInvoke(c, tool, p) ==
    /\ pc = "running"
    /\ active \in Agents
    /\ tool \in ToolsOf(active) \cap RecordingTools
    /\ Quiescent
    /\ NoSearchPending \/ ~lastSearch.joined
    /\ BeginCall(c, tool, p)
    /\ lastSearch' = IF NoSearchPending THEN lastSearch
                     ELSE [lastSearch EXCEPT !.joined = TRUE]
    /\ UNCHANGED <<state, lock, lastWrite, pc, runs, active, activations,
                   lastAttempt, handoffFailed, lastDone, result, output>>
    /\ UNCHANGED <<uiVars, build>>

\* a direct call of a tool function, outside any agent
DirectInvoke(c, tool, p) ==
    /\ tool \in RecordingTools
    /\ BeginCall(c, tool, p)
    /\ UNCHANGED <<state, lock, lastWrite, pc, runs, active, activations,
                   lastAttempt, handoffFailed, lastDone, result, output>>
    /\ UNCHANGED <<lastSearch, uiVars, build>>

-----------------------------------------------------------------------------
(* The run: the engine's steps between the call of agent_workflow.run and  *)
(* its result                                                              *)

\* the state a run starts from.  execute_workflow calls run on the workflow
\* object it is given and re-initialises nothing (lines 140-144); whether the
\* engine keeps the state with the workflow object or starts each run from
\* initial_state is decided inside the engine, and is taken here as the
\* specification has it (section 3: the state persists across invocations)
StateAtRunStart(s) == s

\* the engine accepts a hand-off only to a declared target of the active agent
HandoffAccepted(from, to) == to \in CanHandoffTo(from)

\* the exceptions a call may end in: those derived from Exception, and the
\* others (asyncio.CancelledError, KeyboardInterrupt, SystemExit)
ExceptionKinds == {"Exception", "BaseException"}

\* where execute_workflow is after an exception of this kind went through it
RaisedPc(kind) == IF kind = "Exception" THEN "raised" ELSE "raised_base"

\* how far asyncio.run(_run()) of line 172 gets: agent_workflow.run is
\* entered ("run"), or an exception is raised before that (asyncio.run not
\* starting, an interrupt)
Entries == {"run"} \cup ExceptionKinds

\* execute_workflow starts.  When run is entered,
\* agent_workflow.run(user_msg=...) begins with the root agent active; when
\* an exception comes first, execute_workflow raises it, run is not called
\* and no agent becomes active.  The calls on one workflow object are taken
\* one after the other: app.py makes them from the script run of the
\* session that owns the object
StartRunFrom(s, entry) ==
    /\ pc \in {"idle", "returned", "raised", "raised_base"}
    /\ runs < MaxRuns
    /\ Quiescent
    /\ NoSearchPending
    /\ runs' = runs + 1
    /\ output' = NoOutput
    /\ IF entry = "run"
       THEN /\ pc' = "running"
            /\ state' = StateAtRunStart(s)
            /\ active' = RootAgent
            /\ activations' = <<RootAgent>>
            /\ lastAttempt' = NoAttempt
            /\ handoffFailed' = FALSE
            /\ result' = NoResult
            /\ lastSearch' = NoSearch
       ELSE /\ pc' = RaisedPc(entry)
            /\ state' = s
            /\ UNCHANGED <<active, activations, lastAttempt, handoffFailed,
                           result, lastSearch>>
    /\ UNCHANGED <<lock, calls, lastWrite, lastDone, build>>

\* execute_workflow is called on the workflow
ExecuteWorkflowCall(entry) ==
    /\ StartRunFrom(state, entry)
    /\ UNCHANGED uiVars

\* the active agent tries to hand off to `target`
Handoff(target) ==
    /\ pc = "running"
    /\ active \in Agents
    /\ Quiescent
    /\ NoSearchPending
    /\ Len(activations) < MaxActivations
    /\ lastAttempt' = [from |-> active, to |-> target,
                       ok |-> HandoffAccepted(active, target)]
    /\ IF HandoffAccepted(active, target)
       THEN /\ active' = target
            /\ activations' = Append(activations, target)
       ELSE UNCHANGED <<active, activations>>
    /\ UNCHANGED <<state, lock, calls, lastWrite, pc, runs, handoffFailed,
                   lastDone, result, output>>
    /\ UNCHANGED <<lastSearch, uiVars, build>>

\* the shapes of the object run hands back: with or without a state
\* attribute (the state in full, or a dictionary without the keys), with or
\* without a response attribute (a string, or another object), and what
\* str() makes of it.  That the state attribute, where there is one, holds
\* the workflow state is the engine's part
StateShapes == {"absent", "full", "nokeys"}
Responses == {Missing, Str(""), Str("C"), Obj("M")}
StrForms == {Text(""), Text("R")}

RunResult(shape, resp, strForm) ==
    [hasState |-> shape # "absent",
     state |-> IF shape = "full" THEN state ELSE [k \in Keys |-> Missing],
     hasResponse |-> resp # Missing,
     response |-> resp,
     str |-> strForm,
     present |-> TRUE]

\* the active agent answers without handing off: the run ends and run
\* returns its result to execute_workflow
AgentFinish(shape, resp, strForm) ==
    /\ pc = "running"
    /\ active \in Agents
    /\ Quiescent
    /\ NoSearchPending
    /\ active' = "Terminated"
    /\ handoffFailed' = (CanHandoffTo(active) # {})
    /\ result' = RunResult(shape, resp, strForm)
    /\ pc' = "awaited"
    /\ UNCHANGED <<state, lock, calls, lastWrite, runs, activations,
                   lastAttempt, lastDone, output>>
    /\ UNCHANGED <<lastSearch, uiVars, build>>

\* call c has assigned key k in a block it has not left
Abandoned(c, k) == calls[c].pc = "written" /\ KeyOf(calls[c].tool) = k

\* an exception ends asyncio.run(_run()): one that leaves
\* agent_workflow.run, at any point of the run, or an interrupt that arrives
\* while _run extracts the output.  execute_workflow has no handler and
\* raises it to its caller.  asyncio.run cancels the tool calls that are
\* under way: they end without storing anything and the lock is free again;
\* a search that waits for its provider is left to end, its result dropped
RunRaises(kind) ==
    /\ \/ pc = "running" /\ active \in Agents
       \/ pc = "awaited" /\ kind = "BaseException"
    /\ pc' = RaisedPc(kind)
    /\ active' = IF active \in Agents THEN "Failed" ELSE active
    /\ calls' = [c \in CallIds |-> NoCall]
    /\ lock' = 0
    /\ lastWrite' = [k \in Keys |->
                        IF \E c \in CallIds : Abandoned(c, k)
                        THEN calls[CHOOSE c \in CallIds : Abandoned(c, k)].prev
                        ELSE lastWrite[k]]
    /\ lastSearch' = IF NoSearchPending THEN lastSearch
                     ELSE [lastSearch EXCEPT !.outcome = "abandoned",
                                             !.joined = FALSE]
    /\ UNCHANGED <<state, runs, activations, lastAttempt, handoffFailed,
                   lastDone, result, output, uiVars, build>>

-----------------------------------------------------------------------------
(* web_search: lambda query: asyncio.run(search_web(query, client))        *)

\* what client.search hands back when it succeeds
SearchPayload == Obj("{'results': []}")

\* mutant: a failed search is tried once more
ProviderCallsWithRetry(outcome) == IF outcome = "error" THEN 2 ELSE 1

\* calls of client.search made by one search_web: the one awaited call
ProviderCalls(outcome) == 1

\* where the engine calls the synchronous tool function: in a worker thread,
\* or on the thread of the loop that runs the workflow
Dispatches == {"thread", "loop"}

\* the search agent calls web_search.  In a worker thread asyncio.run starts
\* search_web, which calls client.search and waits for it while the
\* workflow's own loop goes on; on the thread of the running loop asyncio.run
\* raises RuntimeError at once and search_web does not run
WebSearchBegin(dispatch) ==
    /\ pc = "running"
    /\ active \in Agents
    /\ "web_search" \in ToolsOf(active)
    /\ NoSearchPending
    /\ Quiescent
    /\ lastSearch' = IF dispatch = "loop"
                     THEN [outcome |-> "refused", providerCalls |-> 0,
                           value |-> Missing, joined |-> FALSE]
                     ELSE [outcome |-> "pending", providerCalls |-> 1,
                           value |-> Missing, joined |-> FALSE]
    /\ UNCHANGED <<state, lock, calls, lastWrite, pc, runs, active,
                   activations, lastAttempt, handoffFailed, lastDone, result,
                   output, uiVars, build>>

\* client.search returns or raises, and the tool hands str(results) or the
\* error back to the agent's tool loop
WebSearchEnd(outcome) ==
    /\ lastSearch.outcome = "pending"
    /\ lastSearch' = [outcome |-> outcome,
                      providerCalls |-> ProviderCalls(outcome),
                      value |-> IF outcome = "ok"
                                THEN StrOf(PyStr(SearchPayload)) ELSE Missing,
                      joined |-> FALSE]
    /\ UNCHANGED <<state, lock, calls, lastWrite, pc, runs, active,
                   activations, lastAttempt, handoffFailed, lastDone, result,
                   output, uiVars, build>>

-----------------------------------------------------------------------------
(* execute_workflow._run after the await: the output extraction            *)

\* d.get(k, default)
Get(d, k, default) == IF d[k] = Missing THEN default ELSE d[k]

\* repr of each key, and the separators of a dictionary's repr
KeyRepr == [i \in 1..Len(KeyOrder) |-> ReprStr(Text(KeyOrder[i]))]
ColonSpace == Text(": ")
CommaSpace == Text(", ")

RECURSIVE ReprItems(_, _)
\* the items of repr(d), from position i of the key order on
ReprItems(d, i) ==
    IF i > Len(KeyOrder) THEN << >>
    ELSE IF d[KeyOrder[i]] = Missing THEN ReprItems(d, i + 1)
    ELSE <<KeyRepr[i] \o ColonSpace \o PyRepr(d[KeyOrder[i]])>>
         \o ReprItems(d, i + 1)

RECURSIVE JoinComma(_)
JoinComma(items) ==
    IF Len(items) = 0 THEN << >>
    ELSE IF Len(items) = 1 THEN items[1]
    ELSE items[1] \o CommaSpace \o JoinComma(Tail(items))

\* repr of a dictionary, between braces (123, 125)
ReprDict(d) == <<123>> \o JoinComma(ReprItems(d, 1)) \o <<125>>

NotFoundText == Text("No article text found.")
DebugInfoText == Text("\n\nDebug info:\nState: ")
SearchLineText == Text("\nSearch: ")
EmptyStr == Str("")

\* f"No article text found.\n\nDebug info:\nState: {getattr(result, 'state', {})}\nSearch: {search_results}"
Diagnostic(r, search) ==
    NotFoundText \o DebugInfoText
        \o ReprDict(IF r.hasState THEN r.state ELSE [k \in Keys |-> Missing])
        \o SearchLineText \o PyStr(search)

\* what the extraction reads from the result
ImprovedArticle(r) ==
    IF r.hasState THEN Get(r.state, "improved_post_article", EmptyStr)
    ELSE EmptyStr
PostArticle(r) ==
    IF r.hasState THEN Get(r.state, "post_article_content", EmptyStr)
    ELSE EmptyStr
SearchResults(r) ==
    IF r.hasState THEN Get(r.state, "search_results", EmptyStr) ELSE EmptyStr
FallbackOutput(r) ==
    IF r.hasResponse /\ IsStr(r.response) THEN r.response ELSE StrOf(r.str)

\* mutant: the draft is tried before the improved article
ExtractOutputDraftFirst(r) ==
    IF Truthy(PostArticle(r)) THEN PostArticle(r)
    ELSE IF Truthy(ImprovedArticle(r)) THEN ImprovedArticle(r)
    ELSE IF Truthy(FallbackOutput(r)) THEN FallbackOutput(r)
    ELSE StrOf(Diagnostic(r, SearchResults(r)))

\* mutant: the last branch is missing, the fallback is returned as it is
ExtractOutputNoDiagnostic(r) ==
    IF Truthy(ImprovedArticle(r)) THEN ImprovedArticle(r)
    ELSE IF Truthy(PostArticle(r)) THEN PostArticle(r)
    ELSE FallbackOutput(r)

\* mutant: a draft returned in place of the improved article is marked
ExtractOutputFlagged(r) ==
    IF Truthy(ImprovedArticle(r)) THEN ImprovedArticle(r)
    ELSE IF Truthy(PostArticle(r))
         THEN StrOf(Text("[draft only] ") \o PyStr(PostArticle(r)))
    ELSE IF Truthy(FallbackOutput(r)) THEN FallbackOutput(r)
    ELSE StrOf(Diagnostic(r, SearchResults(r)))

\* the fallback priority of execute_workflow._run
ExtractOutput(r) ==
    LET improved_article == ImprovedArticle(r)
        post_article == PostArticle(r)
        search_results == SearchResults(r)
        fallback_output == FallbackOutput(r)
    IN  IF Truthy(improved_article) THEN improved_article
        ELSE IF Truthy(post_article) THEN post_article
        ELSE IF Truthy(fallback_output) THEN fallback_output
        ELSE StrOf(Diagnostic(r, search_results))

\* mutant: _run goes on without waiting for the run to end
RunAwaitedEarly == pc \in {"running", "awaited"}

\* result = await agent_workflow.run(...): _run goes on once the run is over
RunAwaited == pc = "awaited"

\* execute_workflow returns what _run extracted
ExecuteWorkflowReturn ==
    /\ RunAwaited
    /\ output' = ExtractOutput(result)
    /\ pc' = "returned"
    /\ UNCHANGED <<state, lock, calls, lastWrite, runs, active, activations,
                   lastAttempt, handoffFailed, lastDone, result>>
    /\ UNCHANGED <<lastSearch, uiVars, build>>

-----------------------------------------------------------------------------
(* app.py: the Streamlit script, run from the top on every interaction     *)

\* a text is the sequence of its code points.  What the user may have typed
\* or pasted into the text area: nothing, a space and a tab, a carriage
\* return and a line feed, a no-break space, a zero-width space (which str.strip() keeps), and
\* " ai "
Topics == {<< >>, <<32, 9>>, <<13, 10>>, <<160>>, <<8203>>,
           <<32, 97, 105, 32>>}

\* the characters str.strip() removes: those for which str.isspace() holds
Whitespace ==
    (9..13) \cup (28..32) \cup {133, 160, 5760} \cup (8192..8202)
        \cup {8232, 8233, 8239, 8287, 12288}

RECURSIVE LStrip(_)
LStrip(q) ==
    IF Len(q) > 0 /\ Head(q) \in Whitespace THEN LStrip(Tail(q)) ELSE q

RECURSIVE RStrip(_)
RStrip(q) ==
    IF Len(q) > 0 /\ q[Len(q)] \in Whitespace
    THEN RStrip(SubSeq(q, 1, Len(q) - 1)) ELSE q

\* mutant: the topic is tested as typed
StripNothing(q) == q

\* user_query.strip()
Strip(q) == RStrip(LStrip(q))

\* what initialize_workflow does: it returns the workflow, or raises
InitOutcomes == {"ok"} \cup ExceptionKinds

\* mutant: the workflow is built in every script run
NeedsInitAlways(s) == TRUE

\* 'agent_workflow' not in st.session_state
NeedsInit(s) == s = 0

\* except Exception: the handler takes the instances of Exception
Catches(kind) == kind = "Exception"

\* mutant: the response is rendered after the error as well
AfterRaiseRendered == "markdown"

\* except Exception as e: st.error(...)
AfterRaise == "error"

\* one run of the script.  `initOutcome` is what initialize_workflow does if
\* it is called ("ok", or the kind of exception it raises), `entry` how far
\* the call of execute_workflow gets if it is made, `pressed` whether this run is a press of the button (which
\* is on the page only if the last run got as far as drawing it), `q` the
\* text area's content.
ScriptRun(initOutcome, pressed, q, entry) ==
    /\ shown # "spinner"
    /\ Quiescent
    /\ NoSearchPending
    /\ pressed => (session # 0 /\ shown \notin {"init_error", "init_uncaught"})
    /\ (pressed /\ Strip(q) # << >>) \/ entry = "run"
    /\ IF NeedsInit(session) /\ initOutcome # "ok"
       THEN \* an Exception: st.error(...); st.stop().  Another exception is
            \* not caught by line 10 and ends the script run with no error
            \* shown
            /\ entry = "run"
            /\ shown' = IF Catches(initOutcome) THEN "init_error"
                         ELSE "init_uncaught"
            /\ button' = FALSE
            /\ UNCHANGED <<state, lock, calls, lastWrite, pc, runs, active,
                           activations, lastAttempt, handoffFailed, lastDone,
                           result, output, lastSearch, session, inits, topic,
                           build>>
       ELSE /\ initOutcome = "ok"
            /\ session' = IF NeedsInit(session) THEN inits + 1 ELSE session
            /\ inits' = IF NeedsInit(session) THEN inits + 1 ELSE inits
            /\ topic' = q
            /\ button' = pressed
            /\ IF pressed /\ Strip(q) # << >>
               THEN /\ shown' = "spinner"
                    /\ StartRunFrom(IF NeedsInit(session) THEN InitialState
                                    ELSE state, entry)
               ELSE /\ shown' = IF pressed THEN "warning" ELSE "none"
                    /\ state' = IF NeedsInit(session) THEN InitialState
                                 ELSE state
                    /\ lastWrite' = IF NeedsInit(session)
                                     THEN [k \in Keys |-> NoWrite]
                                     ELSE lastWrite
                    /\ UNCHANGED <<lock, calls, pc, runs, active,
                                   activations, lastAttempt, handoffFailed,
                                   lastDone, result, output, lastSearch,
                                   build>>

\* response = execute_workflow(...); st.markdown(response)
ShowResponse ==
    /\ shown = "spinner"
    /\ pc = "returned"
    /\ shown' = "markdown"
    /\ UNCHANGED <<state, lock, calls, lastWrite, pc, runs, active,
                   activations, lastAttempt, handoffFailed, lastDone, result,
                   output, lastSearch, session, inits, topic, button, build>>

\* except Exception as e: st.error(f"An error occurred: {e}")
ShowError ==
    /\ shown = "spinner"
    /\ \E kind \in ExceptionKinds : pc = RaisedPc(kind) /\ Catches(kind)
    /\ shown' = AfterRaise
    /\ UNCHANGED <<state, lock, calls, lastWrite, pc, runs, active,
                   activations, lastAttempt, handoffFailed, lastDone, result,
                   output, lastSearch, session, inits, topic, button, build>>

\* the exception is no instance of Exception: the handler does not take it,
\* st.error is not called and the exception ends the script run
ScriptDies ==
    /\ shown = "spinner"
    /\ \E kind \in ExceptionKinds : pc = RaisedPc(kind) /\ ~Catches(kind)
    /\ shown' = "uncaught"
    /\ UNCHANGED <<state, lock, calls, lastWrite, pc, runs, active,
                   activations, lastAttempt, handoffFailed, lastDone, result,
                   output, lastSearch, session, inits, topic, button, build>>

-----------------------------------------------------------------------------
(* Specifications *)

\* the pipeline: runs of execute_workflow on one workflow object
Next ==
    \/ \E entry \in Entries : ExecuteWorkflowCall(entry)
    \/ \E c \in CallIds, tool \in RecordingTools :
          \E p \in PayloadsOf(tool) : ToolInvoke(c, tool, p)
    \/ \E c \in CallIds : ToolRaise(c)
    \/ \E c \in CallIds : ToolEnter(c)
    \/ \E c \in CallIds : ToolWrite(c)
    \/ \E c \in CallIds : ToolExit(c)
    \/ \E target \in HandoffTargets : Handoff(target)
    \/ \E shape \in StateShapes, resp \in Responses, strForm \in StrForms :
          AgentFinish(shape, resp, strForm)
    \/ ExecuteWorkflowReturn
    \/ \E kind \in ExceptionKinds : RunRaises(kind)
    \/ \E dispatch \in Dispatches : WebSearchBegin(dispatch)
    \/ \E outcome \in {"ok", "error"} : WebSearchEnd(outcome)

Spec == Init /\ [][Next]_vars

\* a step of a tool call in flight: the event loop resumes the coroutine
ToolProgress ==
    \E c \in CallIds : ToolRaise(c) \/ ToolEnter(c) \/ ToolWrite(c) \/ ToolExit(c)

\* the search call under way returns or raises
SearchProgress == \E outcome \in {"ok", "error"} : WebSearchEnd(outcome)

\* the active agent hands off to an agent it may hand off to, or finishes
AgentProgress ==
    \/ \E target \in HandoffTargets :
          Handoff(target) /\ HandoffAccepted(active, target)
    \/ \E shape \in StateShapes, resp \in Responses, strForm \in StrForms :
          AgentFinish(shape, resp, strForm)

\* the runs, followed with one text per tool
LiveNext ==
    \/ \E entry \in Entries : ExecuteWorkflowCall(entry)
    \/ \E c \in CallIds, tool \in RecordingTools :
          \E p \in PayloadsOf(tool) \cap {Str("S"), Str("B"), Str("A")} :
             ToolInvoke(c, tool, p)
    \/ \E c \in CallIds : ToolRaise(c)
    \/ \E c \in CallIds : ToolEnter(c)
    \/ \E c \in CallIds : ToolWrite(c)
    \/ \E c \in CallIds : ToolExit(c)
    \/ \E target \in HandoffTargets : Handoff(target)
    \/ \E shape \in StateShapes, resp \in Responses, strForm \in StrForms :
          AgentFinish(shape, resp, strForm)
    \/ ExecuteWorkflowReturn
    \/ \E kind \in ExceptionKinds : RunRaises(kind)
    \/ \E dispatch \in Dispatches : WebSearchBegin(dispatch)
    \/ \E outcome \in {"ok", "error"} : WebSearchEnd(outcome)

\* the event loop resumes every coroutine that can go on (weak fairness on
\* the tool steps and on the return of asyncio.run), a search call under way
\* comes to its end (weak fairness), and an agent that can again and again
\* hand off or finish does so in the end (strong fairness: its tool calls
\* disable the step for a while); an exception may end a run, and nothing
\* says that it does
LiveSpec ==
    /\ Init
    /\ [][LiveNext]_vars
    /\ WF_vars(ToolProgress)
    /\ WF_vars(SearchProgress)
    /\ SF_vars(AgentProgress)
    /\ WF_vars(ExecuteWorkflowReturn)

\* a browser session of app.py: nothing is constructed yet
AppInit ==
    /\ FreshWorkflow
    /\ session = 0
    /\ inits = 0
    /\ shown = "none"
    /\ topic = << >>
    /\ button = FALSE

\* the runs a session starts are followed with one text per tool ("S", "B",
\* "A") and one result shape
AppNext ==
    \/ \E initOutcome \in InitOutcomes, pressed \in BOOLEAN, q \in Topics,
          entry \in Entries :
          ScriptRun(initOutcome, pressed, q, entry)
    \/ \E c \in CallIds, tool \in RecordingTools :
          \E p \in PayloadsOf(tool) \cap {Str("S"), Str("B"), Str("A")} :
             ToolInvoke(c, tool, p)
    \/ \E c \in CallIds : ToolRaise(c)
    \/ \E c \in CallIds : ToolEnter(c)
    \/ \E c \in CallIds : ToolWrite(c)
    \/ \E c \in CallIds : ToolExit(c)
    \/ \E target \in HandoffTargets : Handoff(target)
    \/ \E resp \in {Missing, Str("C")} : AgentFinish("full", resp, Text("R"))
    \/ \E dispatch \in Dispatches : WebSearchBegin(dispatch)
    \/ \E outcome \in {"ok", "error"} : WebSearchEnd(outcome)
    \/ \E kind \in ExceptionKinds : RunRaises(kind)
    \/ ExecuteWorkflowReturn
    \/ ShowResponse
    \/ ShowError
    \/ ScriptDies

AppSpec == AppInit /\ [][AppNext]_vars

\* the tool functions alone, called directly and overlapping freely
ToolNext ==
    \/ \E c \in CallIds, tool \in RecordingTools :
          \E p \in PayloadsOf(tool) : DirectInvoke(c, tool, p)
    \/ \E c \in CallIds : ToolRaise(c)
    \/ \E c \in CallIds : ToolEnter(c)
    \/ \E c \in CallIds : ToolWrite(c)
    \/ \E c \in CallIds : ToolExit(c)

ToolSpec == Init /\ [][ToolNext]_vars

-----------------------------------------------------------------------------
(* The claims about the output extraction *)

\* a text holds another
Contains(str, lit) ==
    \E i \in 1..(Len(str) - Len(lit) + 1) :
        SubSeq(str, i, i + Len(lit) - 1) = lit

\* a state field of the run result that holds something
FieldNonEmpty(k) ==
    /\ result.hasState
    /\ result.state[k] # Missing
    /\ result.state[k] # Str("")

\* the run's final response is there: a string that is not empty
ResponsePresent ==
    /\ result.hasResponse
    /\ IsStr(result.response)
    /\ result.response # Str("")

IsDiagnostic(v) == IsStr(v) /\ Contains(v.s, NotFoundText)

\* C1: execute_workflow returns improved_post_article when that field is
\* non-empty, else post_article_content when that is non-empty, else the
\* run's final response when it is a non-empty string.
C1_OutputPriority ==
    pc = "returned" =>
        /\ FieldNonEmpty("improved_post_article")
              => output = result.state["improved_post_article"]
        /\ (~FieldNonEmpty("improved_post_article")
              /\ FieldNonEmpty("post_article_content"))
              => output = result.state["post_article_content"]
        /\ (~FieldNonEmpty("improved_post_article")
              /\ ~FieldNonEmpty("post_article_content")
              /\ ResponsePresent)
              => output = result.response

\* improved = "A", draft = "B", response = "C": "A" was returned
C1_Witness ==
    /\ pc = "returned"
    /\ result.hasState
    /\ result.state["improved_post_article"] = Str("A")
    /\ result.state["post_article_content"] = Str("B")
    /\ result.response = Str("C")
    /\ output = Str("A")

\* C2 as stated: with both fields empty and no final response (absent, not
\* a string, or the empty string) the diagnostic is returned.
C2_DiagnosticWheneverNoResponse ==
    (/\ pc = "returned"
     /\ ~FieldNonEmpty("improved_post_article")
     /\ ~FieldNonEmpty("post_article_content")
     /\ ~ResponsePresent)
        => IsDiagnostic(output)

\* C2, amended: with both fields empty the diagnostic is returned exactly
\* when the fallback is empty: the response is the empty string, or it is
\* absent or not a string and str(result) is the empty string; with a
\* response that is absent or not a string and a non-empty str(result),
\* str(result) is returned.
C2_DiagnosticWhenFallbackEmpty ==
    (/\ pc = "returned"
     /\ ~FieldNonEmpty("improved_post_article")
     /\ ~FieldNonEmpty("post_article_content")
     /\ ~ResponsePresent)
        => IF \/ (result.hasResponse /\ result.response = Str(""))
              \/ (~(result.hasResponse /\ IsStr(result.response))
                    /\ result.str = << >>)
           THEN IsDiagnostic(output)
           ELSE output = StrOf(result.str) /\ ~IsDiagnostic(output)

\* everything was empty and the diagnostic came back
C2_Witness ==
    /\ pc = "returned"
    /\ result.hasState
    /\ result.state = InitialState
    /\ result.hasResponse
    /\ result.response = Str("")
    /\ IsDiagnostic(output)

\* C3 as stated: whatever the shape of the run result, what execute_workflow
\* returns is a string, and it is the improved article, the draft, the
\* run's response (as given, or as str() renders the result) or the
\* diagnostic.
C3_AlwaysAString ==
    pc = "returned" =>
        /\ IsStr(output)
        /\ \/ result.hasState
                 /\ output = result.state["improved_post_article"]
           \/ result.hasState
                 /\ output = result.state["post_article_content"]
           \/ result.hasResponse /\ output = result.response
           \/ output = StrOf(result.str)
           \/ IsDiagnostic(output)

-----------------------------------------------------------------------------
(* The claims about the state-recording tools *)

\* the key each tool is documented to record
OwnKey(tool) ==
    CASE tool = "record_search_results" -> "search_results"
      [] tool = "write_post" -> "post_article_content"
      [] tool = "improve_seo" -> "improved_post_article"

\* C4 as stated: when a call of a state-recording tool with payload P is
\* over, the tool's own key holds exactly P, whatever it held before.
C4_OverwriteByEveryCall ==
    [][\A c \in CallIds :
          (calls[c].pc # "idle" /\ calls'[c].pc = "idle")
             => state'[OwnKey(calls[c].tool)] = calls[c].payload]_vars

\* C9: the workflow state has exactly the three keys; each is the empty
\* string in a fresh workflow and stays so until its own tool has assigned
\* it for the first time.
C9_EmptyUntilRecorded ==
    /\ DOMAIN state = {"search_results", "post_article_content",
                       "improved_post_article"}
    /\ \A tool \in RecordingTools :
          lastWrite[OwnKey(tool)] = NoWrite => state[OwnKey(tool)] = Str("")

\* the search results are recorded, the other two keys were never assigned
\* and are still empty
C9_Witness ==
    /\ state["search_results"] = Str("S")
    /\ lastWrite["post_article_content"] = NoWrite
    /\ lastWrite["improved_post_article"] = NoWrite
    /\ state["post_article_content"] = Str("")
    /\ state["improved_post_article"] = Str("")

\* the calls inside the edit_state block
InBlock == {c \in CallIds : calls[c].pc \in {"editing", "written"}}

\* C10 as stated: at most one call is inside edit_state, it holds the lock,
\* and the state changes only when the holder leaves the block; when one of
\* two overlapping calls of the same tool ends, the key holds that call's
\* payload, the write made last, and not the value it held before, and no
\* other key has changed.
C10_LastWriteWins ==
    /\ [](/\ Cardinality(InBlock) <= 1
          /\ \A c \in InBlock : lock = c)
    /\ [][state' # state => lock # 0 /\ lock' = 0]_vars
    /\ [][\A c, d \in CallIds :
             (/\ c # d
              /\ calls[c].pc # "idle" /\ calls[d].pc # "idle"
              /\ calls[c].tool = calls[d].tool
              /\ calls'[c].pc = "idle")
                => /\ state'[OwnKey(calls[c].tool)] = calls[c].payload
                   /\ \A k \in Keys \ {OwnKey(calls[c].tool)} :
                         state'[k] = state[k]]_vars

-----------------------------------------------------------------------------
(* The claims about the hand-off protocol and the runs *)

\* the hand-off sets as the specification lists them
AllowedTargets(agent) ==
    IF agent = "SearchAgent" THEN {"WritePostAgent"}
    ELSE IF agent = "WritePostAgent" THEN {"SeoReviewerAgent"}
    ELSE {}

\* C5: the declared hand-off sets are Search -> {Write}, Write -> {SEO},
\* SEO -> {}; the active agent changes from X to Y only if Y is in X's set,
\* and an attempt to hand off to any other name is rejected and leaves the
\* active agent as it was.
C5_HandoffLegality ==
    /\ [](/\ \A a \in Agents : CanHandoffTo(a) = AllowedTargets(a)
          /\ (lastAttempt # NoAttempt
                /\ lastAttempt.to \notin AllowedTargets(lastAttempt.from))
                => ~lastAttempt.ok)
    /\ [][/\ (active \in Agents /\ active' \in Agents /\ active' # active)
                => active' \in AllowedTargets(active)
          /\ (lastAttempt' # lastAttempt /\ lastAttempt' # NoAttempt
                /\ ~lastAttempt'.ok)
                => active' = active /\ activations' = activations]_vars

\* the writer tried to hand back to the search agent, was refused and is
\* still the active agent
C5_Witness ==
    /\ pc = "running"
    /\ lastAttempt = [from |-> "WritePostAgent", to |-> "SearchAgent",
                      ok |-> FALSE]
    /\ active = "WritePostAgent"

\* the order of the stages; a run is over once it is terminated or has
\* ended in an exception
Stage(a) ==
    CASE a = "SearchAgent" -> 1
      [] a = "WritePostAgent" -> 2
      [] a = "SeoReviewerAgent" -> 3
      [] a = "Terminated" -> 4
      [] a = "Failed" -> 4
      [] OTHER -> 0

\* C6: within a run every change of the active agent moves to a strictly
\* later stage of Search < Write < SEO < Terminated, so no agent is
\* activated twice in a run and Terminated is not left.
C6_NoWayBack ==
    /\ [](\A i, j \in 1..Len(activations) :
              i < j => Stage(activations[i]) < Stage(activations[j]))
    /\ [][runs' = runs =>
             (active' = active \/ Stage(active') > Stage(active))]_vars

\* a run went through all four stages
C6_Witness ==
    /\ active = "Terminated"
    /\ activations = <<"SearchAgent", "WritePostAgent", "SeoReviewerAgent">>
    /\ lastAttempt.ok

\* C7: a run that ended without an agent failing to hand off went through
\* exactly the activations Search, Write, SEO, in this order, and ended
\* from the SEO reviewer.
C7_ThreeActivations ==
    /\ [](((pc \in {"awaited", "returned"}) /\ ~handoffFailed) =>
              activations = <<"SearchAgent", "WritePostAgent",
                              "SeoReviewerAgent">>)
    /\ [][(active # "Terminated" /\ active' = "Terminated" /\ ~handoffFailed')
             => active = "SeoReviewerAgent"]_vars

\* a complete run has returned: three activations, each stage stored its
\* field, no hand-off failed
C7_Witness ==
    /\ pc = "returned"
    /\ ~handoffFailed
    /\ Len(activations) = 3
    /\ state = [search_results |-> Str("S"), post_article_content |-> Str("B"),
                improved_post_article |-> Str("A")]
    /\ output = Str("A")

-----------------------------------------------------------------------------
(* The claims about degraded results, the user interface and the search *)

\* the result of a run like this one in which the SEO stage did store
\* `article`, whatever the draft was
CompleteRun(r, article, draft) ==
    [r EXCEPT !.state = [r.state EXCEPT !["improved_post_article"] = article,
                                        !["post_article_content"] = draft]]

\* C11: when a run ends with improved_post_article empty and a draft in
\* post_article_content, execute_workflow returns the draft itself, the very
\* value a complete run with that text as its improved article returns: the
\* return value tells the two apart by nothing.
C11_SilentDegradation ==
    (/\ pc = "returned"
     /\ ~FieldNonEmpty("improved_post_article")
     /\ FieldNonEmpty("post_article_content"))
        => /\ output = result.state["post_article_content"]
           /\ \A draft \in PayloadsOf("write_post") :
                 ExtractOutput(CompleteRun(result,
                     result.state["post_article_content"], draft)) = output

\* the writer stored the draft "B", the run ended before the SEO reviewer
\* stored anything, and "B" came back
C11_Witness ==
    /\ pc = "returned"
    /\ result.hasState
    /\ result.state["improved_post_article"] = Str("")
    /\ result.state["post_article_content"] = Str("B")
    /\ "SeoReviewerAgent" \notin {activations[i] : i \in 1..Len(activations)}
    /\ output = Str("B")

\* the agent whose tool list holds the tool that records a key
Owner(k) ==
    CASE k = "search_results" -> "SearchAgent"
      [] k = "post_article_content" -> "WritePostAgent"
      [] k = "improved_post_article" -> "SeoReviewerAgent"

ActivatedAgents == {activations[i] : i \in 1..Len(activations)}

\* C17: a key changes only while the agent that owns its tool is active; so
\* in the first run of a fresh workflow a non-empty improved_post_article
\* means the SEO reviewer was activated, and a non-empty
\* post_article_content means the writer was.
C17_OwnerWritesKey ==
    /\ [][\A k \in Keys :
             state'[k] # state[k] => (active = Owner(k) /\ active' = active)]_vars
    /\ [](runs = 1 =>
            /\ state["improved_post_article"] # Str("")
                  => "SeoReviewerAgent" \in ActivatedAgents
            /\ state["post_article_content"] # Str("")
                  => "WritePostAgent" \in ActivatedAgents)

\* in the first run the SEO reviewer is active and has stored the article
C17_Witness ==
    /\ runs = 1
    /\ active = "SeoReviewerAgent"
    /\ lastDone.key = "improved_post_article"
    /\ state["improved_post_article"] = Str("A")

\* a step in which call c of a tool completes: it leaves the block, and is
\* not cancelled there by the end of the run
Completes(c) ==
    calls[c].pc = "written" /\ calls'[c].pc = "idle" /\ pc' = pc

\* C18: a completing call of a state-recording tool leaves the two other
\* keys, the set of keys and the active agent as they were, and nothing but
\* a completing call changes the state: not web_search, not the output
\* extraction.
C18_Frame ==
    /\ [][\A c \in CallIds : Completes(c) =>
             /\ \A k \in Keys \ {OwnKey(calls[c].tool)} : state'[k] = state[k]
             /\ DOMAIN state' = DOMAIN state
             /\ active' = active]_vars
    /\ [][state' # state => \E c \in CallIds : Completes(c)]_vars
    /\ [][lastSearch' # lastSearch => state' = state]_vars
    /\ [][(pc = "awaited" /\ pc' = "returned") => state' = state]_vars

\* improve_seo has just stored "A"; the search results and the draft are
\* what they were, and the SEO reviewer is still active
C18_Witness ==
    /\ pc = "running"
    /\ active = "SeoReviewerAgent"
    /\ lastDone = [key |-> "improved_post_article", before |-> Str("")]
    /\ state = [search_results |-> Str("S"),
                post_article_content |-> Str("B"),
                improved_post_article |-> Str("A")]

\* C19: when the search call fails (client.search raises), search_web has
\* called the provider once for that invocation, no result text is
\* produced, the error goes back to the agent's tool loop (the run goes on
\* with the same agent) and the step writes no key.
C19_SearchFailure ==
    [][(lastSearch' # lastSearch /\ lastSearch'.outcome = "error") =>
          /\ lastSearch'.providerCalls = 1
          /\ lastSearch'.value = Missing
          /\ state' = state
          /\ pc = "running" /\ pc' = "running"
          /\ active' = active]_vars

\* a search failed after the search results "S" had been recorded: they are
\* still there and the run goes on
C19_Witness ==
    /\ pc = "running"
    /\ active = "SearchAgent"
    /\ lastSearch.outcome = "error"
    /\ lastSearch.providerCalls = 1
    /\ state["search_results"] = Str("S")

-----------------------------------------------------------------------------
(* The page *)

\* only whitespace, or nothing at all
Blank(q) == \A i \in 1..Len(q) : q[i] \in Whitespace

\* a step of the script that is a press of the button: the script runs only
\* while no earlier run of it is waiting in execute_workflow
PressStep == shown # "spinner" /\ button'

\* C12 as stated: whatever exception a press's execute_workflow call raises,
\* the next thing on the page is the error, and the response is on the page
\* only after a call that returned.
C12_AnyExceptionDisplayed ==
    /\ [](shown = "markdown" => pc = "returned")
    /\ [][(pc \in {"raised", "raised_base"} /\ shown = "spinner") =>
            (shown' = "error" /\ pc' = pc /\ session' = session)]_vars

\* C12, amended: a press whose execute_workflow call raises an instance of
\* Exception shows the error; one whose call raises another exception
\* (asyncio.CancelledError, KeyboardInterrupt, SystemExit) shows no error,
\* the exception ends the script run.  In both cases the output region is
\* not rendered for that press and the workflow is kept, and from the error
\* page a further press with a topic starts a run on the same workflow
\* object.
C12_ErrorAtBoundary ==
    /\ [](shown = "markdown" => pc = "returned")
    /\ [][(pc = "raised" /\ shown = "spinner") =>
            (shown' = "error" /\ pc' = pc /\ session' = session)]_vars
    /\ [][(pc = "raised_base" /\ shown = "spinner") =>
            (shown' = "uncaught" /\ pc' = pc /\ session' = session)]_vars
    /\ [][(pc = "raised" \/ pc = "raised_base") =>
            (shown' # "markdown" /\ session' = session)]_vars
    /\ []((pc = "raised" /\ shown = "error" /\ runs < MaxRuns) =>
            ENABLED (/\ ScriptRun("ok", TRUE, <<32, 97, 105, 32>>, "run")
                     /\ pc' = "running"
                     /\ session' = session))

\* the error is on the page after a run that had recorded a draft
C12_Witness ==
    /\ pc = "raised"
    /\ shown = "error"
    /\ session = 1
    /\ state["post_article_content"] = Str("B")
    /\ output = NoOutput

\* C13 as stated: initialize_workflow succeeds at most once in a session,
\* the workflow it stored is never replaced, every run is started on that
\* workflow, and a script run whose initialization raised shows the error
\* and calls execute_workflow not at all.
C13_InitFailureAlwaysShown ==
    /\ [](inits <= 1)
    /\ [](pc # "idle" => session = 1)
    /\ [][session # 0 => session' = session]_vars
    /\ [][runs' # runs => (session' = 1 /\ inits' = 1)]_vars
    /\ [][(session = 0 /\ session' = 0) =>
            (shown' = "init_error" /\ runs' = runs /\ pc' = pc
               /\ state' = state)]_vars

\* C13, amended: initialize_workflow succeeds at most once in a session,
\* the workflow it stored is never replaced and every run is started on that
\* workflow.  A script run whose initialization raised calls
\* execute_workflow not at all and stores no workflow: it shows the error
\* and stops when the exception is an instance of Exception, and is ended
\* by the exception, with no error shown, when it is not.
C13_OneWorkflowPerSession ==
    /\ [](inits <= 1)
    /\ [](pc # "idle" => session = 1)
    /\ [][session # 0 => session' = session]_vars
    /\ [][runs' # runs => (session' = 1 /\ inits' = 1)]_vars
    /\ [][(session = 0 /\ session' = 0) =>
            (shown' \in {"init_error", "init_uncaught"} /\ runs' = runs
               /\ pc' = pc /\ state' = state /\ ~button')]_vars
    /\ []((session = 0) =>
            /\ ENABLED (ScriptRun("Exception", FALSE, << >>, "run")
                           /\ shown' = "init_error")
            /\ ENABLED (ScriptRun("BaseException", FALSE, << >>, "run")
                           /\ shown' = "init_uncaught")
            /\ ~ENABLED (ScriptRun("BaseException", FALSE, << >>, "run")
                           /\ shown' = "init_error"))

\* the second query of a session runs on the workflow built for the first
C13_Witness ==
    /\ runs = 2
    /\ pc = "running"
    /\ session = 1
    /\ inits = 1

\* C14: a press with a blank topic shows the warning, starts no run and
\* leaves the workflow state alone; a press with any other topic calls
\* execute_workflow once.
C14_BlankTopic ==
    [][PressStep =>
         IF Blank(topic')
         THEN /\ shown' = "warning"
              /\ runs' = runs
              /\ pc' = pc
              /\ state' = state
              /\ active' = active
         ELSE /\ shown' = "spinner"
              /\ runs' = runs + 1
              /\ pc' \in {"running", "raised", "raised_base"}]_vars

\* the warning after a press with a whitespace-only topic, once a run has
\* left an article in the state
C14_Witness ==
    /\ shown = "warning"
    /\ button
    /\ topic = <<160>>
    /\ runs = 1
    /\ pc = "returned"
    /\ state["improved_post_article"] = Str("A")

-----------------------------------------------------------------------------
(* The hand-off graph *)

\* the agents reached from the set S along declared hand-off edges
RECURSIVE ReachableFrom(_)
ReachableFrom(S) ==
    LET N == S \cup UNION {CanHandoffTo(a) : a \in S \cap Agents}
    IN IF N = S THEN S ELSE ReachableFrom(N)

\* the agents no agent hands off to
Roots == {a \in Agents : \A b \in Agents : a \notin CanHandoffTo(b)}

\* C15: the hand-off graph has one root, SearchAgent, which is the declared
\* root agent; every agent is reachable from it along hand-off edges; every
\* name in a hand-off set is an agent of the workflow; a run starts at the
\* root and is always at an agent reachable from it.
C15_GraphWellFormed ==
    /\ RootAgent = "SearchAgent"
    /\ Roots = {RootAgent}
    /\ ReachableFrom({RootAgent}) = Agents
    /\ UNION {CanHandoffTo(a) : a \in Agents} \subseteq Agents
    /\ pc = "running" =>
          /\ activations[1] = RootAgent
          /\ active \in ReachableFrom({RootAgent})

\* a run that walked the graph from the root to its last agent
C15_Witness ==
    /\ pc = "running"
    /\ active = "SeoReviewerAgent"
    /\ activations = <<"SearchAgent", "WritePostAgent", "SeoReviewerAgent">>

-----------------------------------------------------------------------------
(* Completion *)

\* C16: a call of execute_workflow that has entered the run, whose calls all
\* return and whose agents each hand off or finish in the end, returns to
\* its caller with the run terminated, unless an exception ends the run; it
\* returns only from a terminated run, and the return belongs to the run
\* the call started.
C16_RunCompletes ==
    /\ (pc = "running") ~>
          (\/ pc = "returned" /\ active = "Terminated"
           \/ pc = "raised" \/ pc = "raised_base")
    /\ [](pc = "returned" => active = "Terminated")
    /\ [][(pc' = "returned" /\ pc # "returned") =>
            (active = "Terminated" /\ runs' = runs)]_vars
    /\ [][(pc = "running" /\ pc' # "running") =>
            (\/ pc' = "awaited" /\ active' = "Terminated"
             \/ pc' = "raised" \/ pc' = "raised_base")]_vars

\* the call has returned after the run went through the three agents
C16_Witness ==
    /\ pc = "returned"
    /\ active = "Terminated"
    /\ activations = <<"SearchAgent", "WritePostAgent", "SeoReviewerAgent">>
    /\ output = Str("A")

=============================================================================
